---- MODULE Spec2Model ----
(***************************************************************************)
(* Model of the Facebook post tool: the post store and its lifecycle       *)
(* operations in the two variants of the repository (the file-backed       *)
(* PostManager of streamlit_app.py and the in-memory test_posts table of   *)
(* app/main.py), and the seven-step generation pipeline of                 *)
(* ai_post_generator.py.                                                   *)
(* Spec runs either store on storage that works, FaultSpec the PostManager *)
(* on a POSTS_FILE whose writes may fail, RaceSpec two concurrent callers  *)
(* of PostManager.create_post, WorkflowSpec the generation pipeline.       *)
(*                                                                         *)
(* Conventions.                                                            *)
(*  - Python None is the empty sequence <<>>, a present value v is <<v>>.  *)
(*  - A Python dict is a set of <<key, value>> pairs.                      *)
(*  - Time is an integer number of clock ticks; two datetime.now() reads   *)
(*    give equal values (equal isoformat strings) iff no tick lies between *)
(*    them.                                                                *)
(*  - Text is a sequence of tokens; the non-ASCII literals of the source   *)
(*    are written as ASCII tokens, one token per literal fragment.         *)
(*  - Scores such as 5.0 are written in tenths (50).                       *)
(***************************************************************************)
EXTENDS Integers, Sequences, FiniteSets, TLC

VARIABLES
    variant,      \* which program runs: "streamlit", "api" or "workflow"
    faults,       \* whether writes of POSTS_FILE may fail in this run
    posts_file,   \* streamlit_app.py POSTS_FILE: [exists, valid, data]
    test_posts,   \* app/main.py test_posts, in insertion order
    clock,        \* the value datetime.now() would return
    ret,          \* outcome of the last store operation, as seen by its caller
    pre,          \* the store contents when the last store operation was called
    issued,       \* the ids returned by create so far, in order
    nops,         \* number of store operations performed
    threads,      \* the concurrent callers of PostManager.create_post
    config,       \* AIConfigManager.load_config() result used by the workflow
    request,      \* the PostGenerationRequest
    wf,           \* "none", "constructed" or "raised": AIPostWorkflow()
    ctor_error,   \* the exception raised by AIPostWorkflow(): [type, message]
    pc,           \* position of generate_post in the graph
    state,        \* the AIPostState threaded through the nodes
    executed,     \* names of the nodes run so far, in order
    calls,        \* every external-service call so far: <<node, outcome kind>>
    errors_after, \* len(state["errors"]) when each executed node returned
    result,       \* the GeneratedPost returned by generate_post, or None
    image_files,  \* the paths generate_image has written an image to, in order
    ai_config_file,   \* ai_post_generator.py AI_CONFIG_FILE: [exists, kind, items]
    loaded_config     \* what the last AIConfigManager.load_config() returned, or None

storeVars == <<posts_file, test_posts, clock, ret, pre, issued, nops, threads>>
flowVars == <<config, request, wf, ctor_error, pc, state, executed, calls, errors_after,
              result, image_files>>
cfgVars == <<ai_config_file, loaded_config>>
genVars == <<flowVars, cfgVars>>
vars == <<variant, faults, posts_file, test_posts, clock, ret, pre, issued, nops, threads,
          config, request, wf, ctor_error, pc, state, executed, calls, errors_after,
          result, image_files, ai_config_file, loaded_config>>

None == <<>>
Some(v) == <<v>>

\* ---------------------------------------------------------------- bounds
MaxOps == 3        \* operations on test_posts per behaviour
MaxManagerOps == 4 \* PostManager operations per behaviour (its store starts empty)
MaxFaultOps == 3   \* PostManager operations per behaviour when writes may fail
MaxTicks == 1      \* clock ticks after start-up
Now0 == 72         \* the clock at start-up, in ticks
TicksPerSecond == 2
MaxCalls == 2      \* create_post calls per concurrent caller
MaxImages == 2     \* images stored before generate_post is called no more

\* ------------------------------------------------------------- the store
Statuses == {"draft", "scheduled", "published", "failed"}

RECURSIVE MaxOf(_)
MaxOf(S) ==
    IF S = {} THEN 0
    ELSE LET x == CHOOSE y \in S : TRUE
             m == MaxOf(S \ {x})
         IN IF x > m THEN x ELSE m

Ids(posts) == {posts[i].id : i \in 1..Len(posts)}

\* int(datetime.now().timestamp()): whole seconds
Timestamp(t) == t \div TicksPerSecond

\* f"fb_{post_id}_{int(datetime.now().timestamp())}"
FbId(post_id, t) == <<"fb", post_id, Timestamp(t)>>

\* class Post of streamlit_app.py
Post(id, title, content, status, scheduled_time, created_time, updated_time) ==
    [id |-> id, title |-> title, content |-> content, status |-> status,
     scheduled_time |-> scheduled_time, created_time |-> created_time,
     updated_time |-> updated_time, facebook_post_id |-> None,
     engagement_stats |-> {}]

PostFields == {"id", "title", "content", "status", "scheduled_time",
               "created_time", "updated_time", "facebook_post_id",
               "engagement_stats"}

\* the Optional[...] fields: they hold None or Some(v)
OptionalFields == {"scheduled_time", "facebook_post_id"}

\* the JSON values of the document
JNull == [json_type |-> "null", value |-> <<>>]
JString(s) == [json_type |-> "string", value |-> s]
JNumber(n) == [json_type |-> "number", value |-> n]
JObject(items) == [json_type |-> "object", value |-> items]

\* Optional[str] to JSON and back
JOptional(v) == IF v = None THEN JNull ELSE JString(v[1])
FromJOptional(j) == IF j.json_type = "null" THEN None ELSE Some(j.value)

\* post.model_dump() as json.dump writes it: every field is written, None as null
model_dump(post) ==
    [id |-> JNumber(post.id), title |-> JString(post.title),
     content |-> JString(post.content), status |-> JString(post.status),
     scheduled_time |-> JOptional(post.scheduled_time),
     created_time |-> JString(post.created_time),
     updated_time |-> JString(post.updated_time),
     facebook_post_id |-> JOptional(post.facebook_post_id),
     engagement_stats |-> JObject(post.engagement_stats)]

\* json.dump([post.model_dump() for post in posts], f)
Dumped(posts) == [i \in DOMAIN posts |-> model_dump(posts[i])]

\* the JSON types pydantic accepts for each field of Post
FieldTypes ==
    [id |-> {"number"}, title |-> {"string"}, content |-> {"string"},
     status |-> {"string"}, scheduled_time |-> {"null", "string"},
     created_time |-> {"string"}, updated_time |-> {"string"},
     facebook_post_id |-> {"null", "string"}, engagement_stats |-> {"object"}]

\* whether Post(**post_data) accepts the object
Validates(post_data) ==
    \A f \in PostFields : post_data[f].json_type \in FieldTypes[f]

\* Post(**post_data) that loses the engagement_stats of the document
PostFromData_NoStats(post_data) ==
    [id |-> post_data.id.value, title |-> post_data.title.value,
     content |-> post_data.content.value, status |-> post_data.status.value,
     scheduled_time |-> FromJOptional(post_data.scheduled_time),
     created_time |-> post_data.created_time.value,
     updated_time |-> post_data.updated_time.value,
     facebook_post_id |-> FromJOptional(post_data.facebook_post_id),
     engagement_stats |-> {}]

\* Post(**post_data)
PostFromData(post_data) ==
    [id |-> post_data.id.value, title |-> post_data.title.value,
     content |-> post_data.content.value, status |-> post_data.status.value,
     scheduled_time |-> FromJOptional(post_data.scheduled_time),
     created_time |-> post_data.created_time.value,
     updated_time |-> post_data.updated_time.value,
     facebook_post_id |-> FromJOptional(post_data.facebook_post_id),
     engagement_stats |-> post_data.engagement_stats.value]

\* load_posts that returns the posts it could still read from a broken document
load_posts_KeepsReadable(file) ==
    IF ~file.exists THEN <<>>
    ELSE [i \in DOMAIN file.data |-> PostFromData(file.data[i])]

\* PostManager.load_posts: [] without a document, [] when json.load or any
\* Post(**post_data) raises
load_posts(file) ==
    IF ~file.exists THEN <<>>
    ELSE IF file.valid /\ \A i \in DOMAIN file.data : Validates(file.data[i])
    THEN [i \in DOMAIN file.data |-> PostFromData(file.data[i])]
    ELSE <<>>

\* how the write of save_posts ends: the document is written; open() raises and
\* the document is untouched; json.dump raises after open() truncated it
WriteOutcomes == IF faults THEN {"ok", "not_opened", "partial"} ELSE {"ok"}

\* what json.dump had written when it raised: the list cut short
Truncated(data) == SubSeq(data, 1, Len(data) - 1)

\* save_posts whose write cannot fail
save_posts_AlwaysWrites(file, posts, written) ==
    [exists |-> TRUE, valid |-> TRUE, data |-> Dumped(posts)]

\* PostManager.save_posts: the document after the call (exceptions are swallowed)
save_posts(file, posts, written) ==
    IF written = "ok" THEN [exists |-> TRUE, valid |-> TRUE, data |-> Dumped(posts)]
    ELSE IF written = "not_opened" THEN file
    ELSE [exists |-> TRUE, valid |-> FALSE, data |-> Truncated(Dumped(posts))]

\* get_next_id with the increment forgotten
get_next_id_NoIncrement(posts) ==
    IF posts = <<>> THEN 1 ELSE MaxOf(Ids(posts))

\* PostManager.get_next_id
get_next_id(posts) ==
    IF posts = <<>> THEN 1 ELSE MaxOf(Ids(posts)) + 1

\* new_id = max(test_posts.keys()) + 1 if test_posts else 1
ApiNewId(posts) ==
    IF posts # <<>> THEN MaxOf(Ids(posts)) + 1 ELSE 1

\* d[key] = value on a dict kept in insertion order
DictSet(posts, key, value) ==
    IF key \in Ids(posts)
    THEN [i \in 1..Len(posts) |-> IF posts[i].id = key THEN value ELSE posts[i]]
    ELSE Append(posts, value)

\* index of the first post with this id (0 if none)
FirstIndex(posts, post_id) ==
    IF post_id \in Ids(posts)
    THEN CHOOSE i \in 1..Len(posts) :
            /\ posts[i].id = post_id
            /\ \A j \in 1..(i-1) : posts[j].id # post_id
    ELSE 0

\* [p for p in posts if p.id != post_id]
RECURSIVE Without(_, _)
Without(posts, post_id) ==
    IF posts = <<>> THEN <<>>
    ELSE IF Head(posts).id = post_id THEN Without(Tail(posts), post_id)
    ELSE <<Head(posts)>> \o Without(Tail(posts), post_id)

\* the store of the running variant
Store == IF variant = "streamlit" THEN load_posts(posts_file) ELSE test_posts

\* ------------------------------------------------- inputs of the operations
TitleInputs == {<<"A">>}
ContentInputs == {<<"B">>}
CreateStatusInputs == {"draft", "published", "archived"}
ScheduledInputs == {None}

\* keyword arguments / request bodies of update: a dict, None for "not given"
UpdateInputs ==
    { {<<"title", Some(<<"C">>)>>, <<"content", None>>},
      {<<"status", Some("scheduled")>>, <<"scheduled_time", Some(Now0 + 2)>>},
      {<<"status", Some("archived")>>} }

\* PostManager.update_post(post_id, **updates) takes any keyword: besides the
\* fields of the request body, every attribute of Post passes hasattr
KwargsInputs ==
    UpdateInputs \cup
    { {<<"id", Some(2)>>}, {<<"created_time", Some(Now0 + MaxTicks + 1)>>} }

\* the ids of the first and of the last post of the store, and one id that is
\* not in it
PostIdInputs(posts) ==
    {posts[i].id : i \in {1, Len(posts)} \cap DOMAIN posts} \cup {MaxOf(Ids(posts)) + 1}

\* random.randint(10, 500), (5, 100), (1, 50), (100, 2000): the two extremes
EngagementInputs ==
    { {<<"likes", 10>>, <<"comments", 5>>, <<"shares", 1>>, <<"views", 100>>},
      {<<"likes", 500>>, <<"comments", 100>>, <<"shares", 50>>, <<"views", 2000>>} }

\* the clock may advance by d ticks between two datetime.now() reads of a call
Advance == {d \in 0..1 : clock + d <= Now0 + MaxTicks}

\* what the caller of a store operation gets back (code is the HTTP status, 0 for
\* the PostManager), and the clock when it called and when the call returned
Returned(op, id, ok, code, post, t0, t1) ==
    [op |-> op, id |-> id, ok |-> ok, code |-> code, post |-> post,
     called_at |-> t0, returned_at |-> t1, args |-> {}, saved |-> None,
     written |-> "none", found |-> "none"]

\* the same, for a call that was given a dict of fields
ReturnedFor(args, op, id, ok, code, post, t0, t1) ==
    [Returned(op, id, ok, code, post, t0, t1) EXCEPT !.args = args]

\* the outcome r of a call that handed the list posts to PostManager.save_posts
\* and how that write ended
Saving(r, posts, written) == [r EXCEPT !.saved = Some(posts), !.written = written]

\* what POSTS_FILE is to a reader: missing, a readable list of posts, or text
\* that json.load / Post(**post_data) rejects
DocState(file) ==
    IF ~file.exists THEN "missing"
    ELSE IF file.valid THEN "valid"
    ELSE "undeserializable"

\* the outcome r of a PostManager call that found the document file when it
\* loaded
Loaded(file, r) == [r EXCEPT !.found = DocState(file)]

CanOperate(v) ==
    /\ variant = v
    /\ nops < (IF faults THEN MaxFaultOps
               ELSE IF v = "streamlit" THEN MaxManagerOps ELSE MaxOps)

\* ------------------------------------------------ streamlit_app.py PostManager
\* for key, value in updates.items():
\*     if hasattr(post, key) and value is not None: setattr(post, key, value)
\* the same loop without the "value is not None" test
RECURSIVE ApplyUpdates_SetsNull(_, _)
ApplyUpdates_SetsNull(post, updates) ==
    IF updates = {} THEN post
    ELSE LET kv == CHOOSE x \in updates : TRUE
             rest == ApplyUpdates_SetsNull(post, updates \ {kv})
         IN IF kv[1] \in PostFields
            THEN [rest EXCEPT ![kv[1]] =
                    IF kv[1] \in OptionalFields \/ kv[2] = None THEN kv[2] ELSE kv[2][1]]
            ELSE rest

RECURSIVE ApplyUpdates(_, _)
ApplyUpdates(post, updates) ==
    IF updates = {} THEN post
    ELSE LET kv == CHOOSE x \in updates : TRUE
             rest == ApplyUpdates(post, updates \ {kv})
         IN IF kv[1] \in PostFields /\ kv[2] # None
            THEN [rest EXCEPT ![kv[1]] =
                    IF kv[1] \in OptionalFields THEN kv[2] ELSE kv[2][1]]
            ELSE rest

\* create_post numbering from a counter of the ids given out so far
StCreatePost_Counter(posts, title, content, status, scheduled_time, now) ==
    Post(Len(issued) + 1, title, content, status, scheduled_time, now, now)

StCreatePost(posts, title, content, status, scheduled_time, now) ==
    Post(get_next_id(posts), title, content, status, scheduled_time, now, now)

create_post ==
    /\ CanOperate("streamlit")
    /\ \E title \in TitleInputs, content \in ContentInputs,
          status \in CreateStatusInputs, scheduled_time \in ScheduledInputs,
          written \in WriteOutcomes :
          LET posts == load_posts(posts_file)
              post == StCreatePost(posts, title, content, status, scheduled_time, clock)
          IN /\ posts_file' = save_posts(posts_file, Append(posts, post), written)
             /\ ret' = Loaded(posts_file,
                        Saving(Returned("create", post.id, TRUE, 0, Some(post), clock, clock),
                               Append(posts, post), written))
             /\ issued' = Append(issued, post.id)
             /\ pre' = posts
    /\ nops' = nops + 1
    /\ UNCHANGED <<variant, faults, threads, test_posts, clock, genVars>>

StUpdated(post, updates, now) ==
    [ApplyUpdates(post, updates) EXCEPT !.updated_time = now]

update_post ==
    /\ CanOperate("streamlit")
    /\ LET posts == load_posts(posts_file) IN
       \E post_id \in PostIdInputs(posts), updates \in KwargsInputs,
          written \in WriteOutcomes :
          LET i == FirstIndex(posts, post_id)
              updated == [posts EXCEPT ![i] = StUpdated(posts[i], updates, clock)]
          IN
          /\ pre' = posts
          /\ IF i # 0
             THEN /\ posts_file' = save_posts(posts_file, updated, written)
                  /\ ret' = Loaded(posts_file,
                        Saving(ReturnedFor(updates, "update", post_id, TRUE, 0, None, clock, clock),
                               updated, written))
             ELSE /\ ret' = Loaded(posts_file,
                        ReturnedFor(updates, "update", post_id, FALSE, 0, None, clock, clock))
                  /\ UNCHANGED posts_file
    /\ nops' = nops + 1
    /\ UNCHANGED <<variant, faults, threads, test_posts, clock, issued, genVars>>

delete_post ==
    /\ CanOperate("streamlit")
    /\ LET posts == load_posts(posts_file) IN
       \E post_id \in PostIdInputs(posts), written \in WriteOutcomes :
          LET kept == Without(posts, post_id) IN
          /\ pre' = posts
          /\ IF Len(kept) < Len(posts)
             THEN /\ posts_file' = save_posts(posts_file, kept, written)
                  /\ ret' = Loaded(posts_file,
                        Saving(Returned("delete", post_id, TRUE, 0, None, clock, clock),
                               kept, written))
             ELSE /\ ret' = Loaded(posts_file,
                        Returned("delete", post_id, FALSE, 0, None, clock, clock))
                  /\ UNCHANGED posts_file
    /\ nops' = nops + 1
    /\ UNCHANGED <<variant, faults, threads, test_posts, clock, issued, genVars>>

\* publish that leaves the engagement_stats as they were
StPublished_NoStats(post, post_id, t1, t2, stats) ==
    [post EXCEPT !.status = "published",
                 !.facebook_post_id = Some(FbId(post_id, t1)),
                 !.updated_time = t2]

StPublished(post, post_id, t1, t2, stats) ==
    [post EXCEPT !.status = "published",
                 !.facebook_post_id = Some(FbId(post_id, t1)),
                 !.updated_time = t2,
                 !.engagement_stats = stats]

publish_post ==
    /\ CanOperate("streamlit")
    /\ LET posts == load_posts(posts_file) IN
       \E post_id \in PostIdInputs(posts), d \in Advance, stats \in EngagementInputs,
          written \in WriteOutcomes :
          LET i == FirstIndex(posts, post_id)
              published == [posts EXCEPT ![i] =
                              StPublished(posts[i], post_id, clock, clock + d, stats)]
          IN
          /\ pre' = posts
          /\ IF i # 0
             THEN /\ posts_file' = save_posts(posts_file, published, written)
                  /\ ret' = Loaded(posts_file,
                        Saving(Returned("publish", post_id, TRUE, 0, None, clock, clock + d),
                               published, written))
                  /\ clock' = clock + d
             ELSE /\ ret' = Loaded(posts_file,
                        Returned("publish", post_id, FALSE, 0, None, clock, clock))
                  /\ UNCHANGED <<posts_file, clock>>
    /\ nops' = nops + 1
    /\ UNCHANGED <<variant, faults, threads, test_posts, issued, genVars>>

\* two script runs (browser sessions) that share POSTS_FILE; PostManager takes
\* no lock
Callers == {1, 2}

\* the status arguments of the concurrent callers
RaceStatusInputs == {"draft", "published"}

\* a caller outside create_post: pc is its position, posts its local list,
\* post what its last call returned
NotCalling == [pc |-> "idle", posts |-> <<>>, status |-> "draft", post |-> None, ncalls |-> 0]

\* the new post put in front of the local list instead of behind it
Appended_InFront(local, post) == <<post>> \o local

\* posts.append(post): the list a caller hands to save_posts is its own
\* copy, loaded when its call began
Appended(local, post) == Append(local, post)

\* create_post up to and including posts = PostManager.load_posts()
create_post_load(c) ==
    /\ variant = "streamlit"
    /\ threads[c].pc \in {"idle", "done"}
    /\ threads[c].ncalls < MaxCalls
    /\ \E status \in RaceStatusInputs :
          threads' = [threads EXCEPT ![c] =
                        [pc |-> "loaded", posts |-> load_posts(posts_file),
                         status |-> status, post |-> None, ncalls |-> @.ncalls + 1]]
    /\ UNCHANGED <<variant, faults, posts_file, test_posts, clock, ret, pre, issued, nops, genVars>>

\* the rest of create_post: get_next_id on the local list, the new Post,
\* posts.append, save_posts, return post
create_post_save(c) ==
    /\ variant = "streamlit"
    /\ threads[c].pc = "loaded"
    /\ \E title \in TitleInputs, content \in ContentInputs,
          scheduled_time \in ScheduledInputs, written \in WriteOutcomes :
          LET posts == threads[c].posts
              post == StCreatePost(posts, title, content, threads[c].status,
                                   scheduled_time, clock)
          IN /\ posts_file' = save_posts(posts_file, Appended(posts, post), written)
             /\ threads' = [threads EXCEPT ![c].pc = "done", ![c].post = Some(post)]
             /\ ret' = Saving(Returned("create", post.id, TRUE, 0, Some(post), clock, clock),
                              Appended(posts, post), written)
             /\ issued' = Append(issued, post.id)
             /\ pre' = posts
    /\ nops' = nops + 1
    /\ UNCHANGED <<variant, faults, test_posts, clock, genVars>>

\* sample_posts of init_sample_data
SamplePosts ==
    << [title |-> <<"sample1 title">>, content |-> <<"sample1 content">>, status |-> "published"],
       [title |-> <<"sample2 title">>, content |-> <<"sample2 content">>, status |-> "scheduled"],
       [title |-> <<"sample3 title">>, content |-> <<"sample3 content">>, status |-> "draft"] >>

\* PostManager.create_post(**sample): the document after the call
SampleCreated(file, sample, written, now) ==
    LET posts == load_posts(file)
    IN save_posts(file,
                  Append(posts, StCreatePost(posts, sample.title, sample.content,
                                             sample.status, None, now)),
                  written)

\* PostManager.publish_post(post_id): the document after the call
PublishedIn(file, post_id, written, t1, t2, stats) ==
    LET posts == load_posts(file)
        i == FirstIndex(posts, post_id)
    IN IF i = 0 THEN file
       ELSE save_posts(file,
                       [posts EXCEPT ![i] = StPublished(posts[i], post_id, t1, t2, stats)],
                       written)

\* for post in posts: if post.status == "published": publish_post(post.id)
RECURSIVE PublishSamples(_, _, _, _, _, _)
PublishSamples(file, posts, written, t1, t2, stats) ==
    IF posts = <<>> THEN file
    ELSE PublishSamples(
            IF Head(posts).status = "published"
            THEN PublishedIn(file, Head(posts).id, written, t1, t2, stats)
            ELSE file,
            Tail(posts), written, t1, t2, stats)

\* init_sample_data, run at the start of every script run
init_sample_data ==
    /\ CanOperate("streamlit")
    /\ LET posts == load_posts(posts_file) IN
       /\ pre' = posts
       /\ IF posts # <<>>
          THEN /\ ret' = Loaded(posts_file, Returned("init", 0, TRUE, 0, None, clock, clock))
               /\ UNCHANGED <<posts_file, clock, issued>>
          ELSE \E w \in [1..4 -> WriteOutcomes], d \in Advance, stats \in EngagementInputs :
                  LET f1 == SampleCreated(posts_file, SamplePosts[1], w[1], clock)
                      f2 == SampleCreated(f1, SamplePosts[2], w[2], clock)
                      f3 == SampleCreated(f2, SamplePosts[3], w[3], clock)
                  IN /\ posts_file' = PublishSamples(f3, load_posts(f3), w[4],
                                                     clock, clock + d, stats)
                     /\ issued' = issued \o <<get_next_id(load_posts(posts_file)),
                                              get_next_id(load_posts(f1)),
                                              get_next_id(load_posts(f2))>>
                     /\ ret' = Loaded(posts_file,
                                      Returned("init", 0, TRUE, 0, None, clock, clock + d))
                     /\ clock' = clock + d
    /\ nops' = nops + 1
    /\ UNCHANGED <<variant, faults, threads, test_posts, genVars>>

\* time passes between two operations
Tick ==
    /\ variant \in {"streamlit", "api", "workflow"}
    /\ clock < Now0 + MaxTicks
    /\ clock' = clock + 1
    /\ UNCHANGED <<variant, faults, threads, posts_file, test_posts, ret, pre, issued, nops, genVars>>

\* ------------------------------------------------------- app/main.py handlers
\* a value of the test_posts table
ApiPost(id, title, content, status, scheduled_time, created_time, updated_time, facebook_post_id, engagement_stats) ==
    [id |-> id, title |-> title, content |-> content, status |-> status,
     scheduled_time |-> scheduled_time, created_time |-> created_time,
     updated_time |-> updated_time, author_id |-> 1,
     facebook_post_id |-> facebook_post_id, engagement_stats |-> engagement_stats]

\* the module-level test_posts literal; times are offsets from start-up in ticks
InitialTestPosts ==
    << ApiPost(1, <<"title1">>, <<"content1">>, "published", None,
               Now0 - 2, Now0 - 2, Some(<<"fb", 123456789>>),
               {<<"likes", 156>>, <<"comments", 23>>, <<"shares", 12>>, <<"views", 1250>>}),
       ApiPost(2, <<"title2">>, <<"content2">>, "scheduled", Some(Now0 + 2),
               Now0 - 4, Now0 - 4, None, {}),
       ApiPost(3, <<"title3">>, <<"content3">>, "draft", None,
               Now0 - 24, Now0 - 24, None, {}),
       ApiPost(4, <<"title4">>, <<"content4">>, "published", None,
               Now0 - 48, Now0 - 48, Some(<<"fb", 987654321>>),
               {<<"likes", 89>>, <<"comments", 15>>, <<"shares", 8>>, <<"views", 892>>}),
       ApiPost(5, <<"title5">>, <<"content5">>, "failed", Some(Now0 - 6),
               Now0 - 72, Now0 - 6, None, {}) >>

\* the value of a field of a request body (None when the field is absent)
Field(body, key) ==
    IF \E kv \in body : kv[1] = key
    THEN (CHOOSE kv \in body : kv[1] = key)[2]
    ELSE None

ApiCreatePost(posts, title, content, status, scheduled_time, t1, t2) ==
    ApiPost(ApiNewId(posts), title, content, status, scheduled_time, t1, t2, None, {})

\* POST /posts
API_create_post ==
    /\ CanOperate("api")
    /\ \E title \in TitleInputs, content \in ContentInputs,
          status \in CreateStatusInputs, scheduled_time \in ScheduledInputs,
          d \in Advance :
          LET new_post == ApiCreatePost(test_posts, title, content, status,
                                        scheduled_time, clock, clock + d)
          IN /\ test_posts' = DictSet(test_posts, new_post.id, new_post)
             /\ ret' = Returned("create", new_post.id, TRUE, 200, Some(new_post), clock, clock + d)
             /\ issued' = Append(issued, new_post.id)
             /\ clock' = clock + d
    /\ pre' = test_posts
    /\ nops' = nops + 1
    /\ UNCHANGED <<variant, faults, threads, posts_file, genVars>>

ApiUpdated(post, body, now) ==
    LET p1 == IF Field(body, "title") # None
              THEN [post EXCEPT !.title = Field(body, "title")[1]] ELSE post
        p2 == IF Field(body, "content") # None
              THEN [p1 EXCEPT !.content = Field(body, "content")[1]] ELSE p1
        p3 == IF Field(body, "status") # None
              THEN [p2 EXCEPT !.status = Field(body, "status")[1]] ELSE p2
        p4 == IF Field(body, "scheduled_time") # None
              THEN [p3 EXCEPT !.scheduled_time = Field(body, "scheduled_time")] ELSE p3
    IN [p4 EXCEPT !.updated_time = now]

\* PUT /posts/{post_id}
API_update_post ==
    /\ CanOperate("api")
    /\ \E post_id \in PostIdInputs(test_posts), body \in UpdateInputs :
          LET i == FirstIndex(test_posts, post_id) IN
          IF i = 0
          THEN /\ ret' = ReturnedFor(body, "update", post_id, FALSE, 404, None, clock, clock)
               /\ UNCHANGED test_posts
          ELSE LET post == ApiUpdated(test_posts[i], body, clock) IN
               /\ test_posts' = [test_posts EXCEPT ![i] = post]
               /\ ret' = ReturnedFor(body, "update", post_id, TRUE, 200, Some(post), clock, clock)
    /\ pre' = test_posts
    /\ nops' = nops + 1
    /\ UNCHANGED <<variant, faults, threads, posts_file, clock, issued, genVars>>

\* DELETE /posts/{post_id}
API_delete_post ==
    /\ CanOperate("api")
    /\ \E post_id \in PostIdInputs(test_posts) :
          IF post_id \notin Ids(test_posts)
          THEN /\ ret' = Returned("delete", post_id, FALSE, 404, None, clock, clock)
               /\ UNCHANGED test_posts
          ELSE /\ test_posts' = Without(test_posts, post_id)
               /\ ret' = Returned("delete", post_id, TRUE, 200, None, clock, clock)
    /\ pre' = test_posts
    /\ nops' = nops + 1
    /\ UNCHANGED <<variant, faults, threads, posts_file, clock, issued, genVars>>

\* publish that forgets to stamp updated_time
ApiPublished_StaleUpdated(post, post_id, t1, t2) ==
    [post EXCEPT !.status = "published",
                 !.facebook_post_id = Some(FbId(post_id, t1))]

ApiPublished(post, post_id, t1, t2) ==
    [post EXCEPT !.status = "published",
                 !.facebook_post_id = Some(FbId(post_id, t1)),
                 !.updated_time = t2]

\* if post["status"] == "published": return {"success": False, ...}
ApiAlreadyPublished(post) == post.status = "published"

\* POST /posts/{post_id}/publish
API_publish_post ==
    /\ CanOperate("api")
    /\ \E post_id \in PostIdInputs(test_posts), d \in Advance :
          LET i == FirstIndex(test_posts, post_id) IN
          IF i = 0
          THEN /\ ret' = Returned("publish", post_id, FALSE, 404, None, clock, clock)
               /\ UNCHANGED <<test_posts, clock>>
          ELSE IF ApiAlreadyPublished(test_posts[i])
          THEN /\ ret' = Returned("publish", post_id, FALSE, 200, None, clock, clock)
               /\ UNCHANGED <<test_posts, clock>>
          ELSE /\ test_posts' = [test_posts EXCEPT ![i] =
                                    ApiPublished(test_posts[i], post_id, clock, clock + d)]
               /\ ret' = Returned("publish", post_id, TRUE, 200, None, clock, clock + d)
               /\ clock' = clock + d
    /\ pre' = test_posts
    /\ nops' = nops + 1
    /\ UNCHANGED <<variant, faults, threads, posts_file, issued, genVars>>

\* ---------------------------------------------- ai_post_generator.py: text
Whitespace == {" ", "\n"}

\* str.strip() on a sequence of tokens
RECURSIVE LStrip(_)
LStrip(text) ==
    IF text # <<>> /\ Head(text) \in Whitespace THEN LStrip(Tail(text)) ELSE text

RECURSIVE RStrip(_)
RStrip(text) ==
    IF text # <<>> /\ text[Len(text)] \in Whitespace
    THEN RStrip(SubSeq(text, 1, Len(text) - 1)) ELSE text

Strip(text) == RStrip(LStrip(text))

\* str.split(sep): the pieces between the separator tokens
RECURSIVE SplitAcc(_, _, _)
SplitAcc(text, sep, piece) ==
    IF text = <<>> THEN <<piece>>
    ELSE IF Head(text) = sep THEN <<piece>> \o SplitAcc(Tail(text), sep, <<>>)
    ELSE SplitAcc(Tail(text), sep, Append(piece, Head(text)))

Split(text, sep) == SplitAcc(text, sep, <<>>)

\* str.replace(token, ""): drop every occurrence of the token
RECURSIVE Remove(_, _)
Remove(text, token) ==
    IF text = <<>> THEN <<>>
    ELSE IF Head(text) = token THEN Remove(Tail(text), token)
    ELSE <<Head(text)>> \o Remove(Tail(text), token)

\* `needle in text`, for a needle that is one token
Contains(text, needle) == \E i \in DOMAIN text : text[i] = needle

\* [x for x in xs if keep(x)] with keep = "is not empty"
RECURSIVE NonEmpty(_)
NonEmpty(xs) ==
    IF xs = <<>> THEN <<>>
    ELSE IF Head(xs) # <<>> THEN <<Head(xs)>> \o NonEmpty(Tail(xs))
    ELSE NonEmpty(Tail(xs))

\* --------------------------------------------------- the workflow's inputs
ModelInputs == { <<"gpt-", "4o-mini">>, <<"claude-", "3-sonnet-20240229">>, <<"llama-3">> }
KeyInputs == {"", "sk-key"}

ConfigInputs ==
    [default_model : ModelInputs, openai_api_key : KeyInputs,
     anthropic_api_key : KeyInputs]

RequestInputs ==
    [topic : {<<"t">>}, include_hashtags : BOOLEAN, generate_image : BOOLEAN]

\* what str(e) of a failed external call reads
ExceptionInputs == { <<"unreachable">> }

\* _init_llm testing the OpenAI key for every provider
_init_llm_WrongKey(cfg) ==
    IF Head(cfg.default_model) \in {"gpt-", "claude-"}
    THEN IF cfg.openai_api_key = ""
         THEN [raised |-> TRUE, type |-> "ValueError",
               error |-> <<"NeedToSet", " ", "OpenAI", " ", "API Key">>, llm |-> None]
         ELSE [raised |-> FALSE, type |-> "", error |-> None, llm |-> Some("ChatOpenAI")]
    ELSE [raised |-> TRUE, type |-> "ValueError",
          error |-> <<"UnsupportedModel: ">> \o cfg.default_model, llm |-> None]

\* PostContentGenerator._init_llm: the model object, or the ValueError raised
\* "NeedToSet" stands for the literal in front of the provider name,
\* "UnsupportedModel: " for the literal in front of the model name
_init_llm(cfg) ==
    IF Head(cfg.default_model) = "gpt-"
    THEN IF cfg.openai_api_key = ""
         THEN [raised |-> TRUE, type |-> "ValueError",
               error |-> <<"NeedToSet", " ", "OpenAI", " ", "API Key">>, llm |-> None]
         ELSE [raised |-> FALSE, type |-> "", error |-> None, llm |-> Some("ChatOpenAI")]
    ELSE IF Head(cfg.default_model) = "claude-"
    THEN IF cfg.anthropic_api_key = ""
         THEN [raised |-> TRUE, type |-> "ValueError",
               error |-> <<"NeedToSet", " ", "Anthropic", " ", "API Key">>, llm |-> None]
         ELSE [raised |-> FALSE, type |-> "", error |-> None, llm |-> Some("ChatAnthropic")]
    ELSE [raised |-> TRUE, type |-> "ValueError",
          error |-> <<"UnsupportedModel: ">> \o cfg.default_model, llm |-> None]

\* ImageGenerator.__init__: self.openai_client is set iff there is an OpenAI key
HasOpenAIClient(cfg) == cfg.openai_api_key # ""

\* a parsed JSON value / a Python value that a Dict[str, float] field may be given
PyDict(items) == [json_type |-> "object", items |-> items]
PyList(items) == [json_type |-> "array", items |-> items]

\* initial_state of generate_post
InitialState ==
    [generated_content |-> <<>>, generated_title |-> <<>>, hashtags |-> <<>>,
     optimization_tips |-> <<>>, engagement_prediction |-> PyDict({}),
     image_prompt |-> None, image_url |-> None, image_description |-> None,
     errors |-> <<>>]

\* an outcome of llm.invoke: it raises, or it returns response.content
Raises(e) == [kind |-> "raise", text |-> <<>>, error |-> e]
Responds(kind, text) == [kind |-> kind, text |-> text, error |-> <<>>]

LlmOutcomes(texts) ==
    {Raises(e) : e \in ExceptionInputs} \cup {Responds("text", t) : t \in texts}

TitleResponses == { <<" ", "Title", "\n">> }
ContentResponses == { <<"Body", " ", "text", "\n">> }
HashtagResponses == { <<"#", "a", ",", " ", "b", ",", " ", "#", "c">> }

\* the error list replaced by the new error instead of extended
WithError_Replaces(st, prefix, e) == [st EXCEPT !.errors = << <<prefix>> \o e >>]

\* state["errors"].append(f"{prefix}{str(e)}")
WithError(st, prefix, e) == [st EXCEPT !.errors = Append(@, <<prefix>> \o e)]

\* PostContentGenerator.generate_title
TitleStep(st, req, out) ==
    IF out.kind = "raise"
    THEN [WithError(st, "TitleFailed: ", out.error) EXCEPT
            !.generated_title = <<"About">> \o req.topic \o <<"WonderfulContent">>]
    ELSE [st EXCEPT !.generated_title = Strip(out.text)]

\* PostContentGenerator.generate_content
ContentStep(st, req, out) ==
    IF out.kind = "raise"
    THEN [WithError(st, "ContentFailed: ", out.error) EXCEPT
            !.generated_content =
                <<"ShareAbout">> \o req.topic \o <<"WonderfulContent...">>]
    ELSE [st EXCEPT !.generated_content = Strip(out.text)]

\* tag if tag.startswith('#') else f'#{tag}'
WithHash(tag) == IF tag # <<>> /\ Head(tag) = "#" THEN tag ELSE <<"#">> \o tag

ParseHashtags(text) ==
    LET pieces == Split(Strip(text), ",")
    IN [i \in DOMAIN pieces |-> WithHash(Strip(pieces[i]))]

\* PostContentGenerator.generate_hashtags, when include_hashtags is set
HashtagStep(st, req, out) ==
    IF out.kind = "raise"
    THEN [WithError(st, "HashtagsFailed: ", out.error) EXCEPT
            !.hashtags = << <<"#">> \o req.topic >>]
    ELSE [st EXCEPT !.hashtags = ParseHashtags(out.text)]

\* PostContentGenerator.generate_hashtags, when include_hashtags is not set
HashtagSkip(st) == [st EXCEPT !.hashtags = <<>>]

ImagePromptResponses == { <<" ", "a", " ", "prompt", " ">> }

\* ImageGenerator.generate_image_prompt, when generate_image is set
ImagePromptStep(st, req, cfg, out) ==
    IF _init_llm(cfg).raised
    THEN [WithError(st, "ImagePromptFailed: ", _init_llm(cfg).error) EXCEPT
            !.image_prompt = Some(<<"Beautiful ">> \o req.topic \o <<" illustration">>)]
    ELSE IF out.kind = "raise"
    THEN [WithError(st, "ImagePromptFailed: ", out.error) EXCEPT
            !.image_prompt = Some(<<"Beautiful ">> \o req.topic \o <<" illustration">>)]
    ELSE [st EXCEPT !.image_prompt = Some(Strip(out.text))]

\* not state.get("image_prompt"): None and the empty string are both falsy
NoImagePrompt(st) == st.image_prompt = None \/ st.image_prompt = Some(<<>>)

\* if not state["request"].generate_image or not state.get("image_prompt")
ImageSkipped(st, req) == ~req.generate_image \/ NoImagePrompt(st)

\* str(GENERATED_IMAGES_DIR / f"generated_{timestamp}.png"), timestamp to the second
ImagePath(now) == <<"data/generated_images/generated_", Timestamp(now), ".png">>

\* the image service: images.generate or requests.get raises, the download
\* answers 200, or it answers another status code
ImageOutcomes ==
    {Raises(e) : e \in ExceptionInputs} \cup {Responds("ok", <<>>), Responds("not200", <<>>)}

\* with open(filepath, 'wb') as f: f.write(image_response.content), on a 200
FilesWritten(files, out, now) ==
    IF out.kind = "ok" THEN Append(files, ImagePath(now)) ELSE files

\* ImageGenerator.generate_image, once an OpenAI client exists
ImageStep(st, out, now) ==
    IF out.kind = "raise" THEN WithError(st, "ImageFailed: ", out.error)
    ELSE IF out.kind = "ok"
    THEN [st EXCEPT !.image_url = Some(ImagePath(now)),
                    !.image_description = st.image_prompt]
    ELSE WithError(st, "ImageDownloadFailed", <<>>)

\* the no-client branch returning the state without a word
ImageNoClient_Silent(st) == st

\* ImageGenerator.generate_image without an OpenAI client
ImageNoClient(st) == WithError(st, "ImageNeedsOpenAIKey", <<>>)

\* the JSON documents the model may answer with, and what json.loads makes of them
JsonDocuments ==
    [doc \in {"{metrics}", "[7.5]"} |->
        IF doc = "{metrics}"
        THEN PyDict({<<"likes", 75>>, <<"comments", 60>>, <<"shares", 55>>,
                     <<"clicks", 80>>, <<"overall", 70>>})
        ELSE PyList({<<"0", 75>>})]

\* json.loads: any other text raises json.JSONDecodeError
JsonLoads(text) ==
    IF Len(text) = 1 /\ text[1] \in DOMAIN JsonDocuments
    THEN [ok |-> TRUE, value |-> JsonDocuments[text[1]]]
    ELSE [ok |-> FALSE, value |-> PyDict({})]

EngagementResponses ==
    { <<" ", "{metrics}", "\n">>, <<"Here", " ", "you", " ", "go">>, <<"[7.5]">> }

\* the default of the json.JSONDecodeError handler
ParseFailureDefault ==
    PyDict({<<"likes", 60>>, <<"comments", 50>>, <<"shares", 45>>,
            <<"clicks", 65>>, <<"overall", 55>>})

\* the default of the outer exception handler
ExceptionDefault ==
    PyDict({<<"likes", 50>>, <<"comments", 50>>, <<"shares", 50>>,
            <<"clicks", 50>>, <<"overall", 50>>})

\* predict_engagement with the parse-failure default in both handlers
EngagementStep_OneDefault(st, out) ==
    IF out.kind = "raise"
    THEN [WithError(st, "EngagementFailed: ", out.error) EXCEPT
            !.engagement_prediction = ParseFailureDefault]
    ELSE LET parsed == JsonLoads(Strip(out.text))
         IN IF parsed.ok
            THEN [st EXCEPT !.engagement_prediction = parsed.value]
            ELSE [st EXCEPT !.engagement_prediction = ParseFailureDefault]

\* EngagementPredictor.predict_engagement
EngagementStep(st, out) ==
    IF out.kind = "raise"
    THEN [WithError(st, "EngagementFailed: ", out.error) EXCEPT
            !.engagement_prediction = ExceptionDefault]
    ELSE LET parsed == JsonLoads(Strip(out.text))
         IN IF parsed.ok
            THEN [st EXCEPT !.engagement_prediction = parsed.value]
            ELSE [st EXCEPT !.engagement_prediction = ParseFailureDefault]

TipsResponses ==
    { <<"\n", "1.", " ", "tipA", "\n", " ", "\n", "2.", "tipB", "\n", "tipC", "\n",
        "4.", "tipD", "\n", "tipE", "\n", "tipF">> }

FallbackTips == << <<"tip: interactive elements">>, <<"tip: best time">>,
                   <<"tip: visual content">> >>

\* tips[:5]
FirstFive(xs) == SubSeq(xs, 1, IF Len(xs) < 5 THEN Len(xs) ELSE 5)

\* the list comprehensions of generate_optimization_tips; the token "n," stands
\* for the number followed by the ideographic comma
ParseTips(text) ==
    LET lines == Split(Strip(text), "\n")
        tips == NonEmpty([i \in DOMAIN lines |-> Strip(lines[i])])
        unnumbered == [i \in DOMAIN tips |->
            Strip(Remove(Remove(tips[i], ToString(i) \o "."), ToString(i) \o ","))]
    IN FirstFive(unnumbered)

\* EngagementPredictor.generate_optimization_tips
TipsStep(st, out) ==
    IF out.kind = "raise"
    THEN [WithError(st, "TipsFailed: ", out.error) EXCEPT
            !.optimization_tips = FallbackTips]
    ELSE [st EXCEPT !.optimization_tips = ParseTips(out.text)]

\* ----------------------------------------------------------- AIPostWorkflow
END == "END"
EntryPoint == "generate_title"

\* the add_edge calls of _build_workflow
Edges ==
    { <<"generate_title", "generate_content">>,
      <<"generate_content", "generate_hashtags">>,
      <<"generate_hashtags", "generate_image_prompt">>,
      <<"generate_image_prompt", "generate_image">>,
      <<"generate_image", "predict_engagement">>,
      <<"predict_engagement", "generate_tips">>,
      <<"generate_tips", END>> }

\* a graph whose hashtag node leads straight to the engagement node
NextNode_SkipsImage(node) ==
    IF node = "generate_hashtags" THEN "predict_engagement"
    ELSE (CHOOSE e \in Edges : e[1] = node)[2]

\* the node the compiled graph runs after `node`
NextNode(node) == (CHOOSE e \in Edges : e[1] = node)[2]

\* pydantic accepts the value for predicted_engagement: Dict[str, float]
IsDictStrFloat(v) == v.json_type = "object"

\* class GeneratedPost
GeneratedPost(title, content, hashtags, predicted_engagement, optimization_tips, image_url, image_description, errors, model_used, image_generated) ==
    [title |-> title, content |-> content, hashtags |-> hashtags,
     predicted_engagement |-> predicted_engagement,
     optimization_tips |-> optimization_tips,
     image_url |-> image_url, image_description |-> image_description,
     generation_metadata |->
        [errors |-> errors, model_used |-> model_used,
         image_generated |-> image_generated]]

\* the result of the except branch of generate_post
Placeholder(req, e) ==
    GeneratedPost(<<"About">> \o req.topic \o <<"Sharing">>,
                  <<"WantToShareAbout">> \o req.topic \o <<"WonderfulContent...">>,
                  << <<"#">> \o req.topic >>,
                  {<<"overall", 50>>},
                  << <<"tip: check the AI configuration">> >>,
                  None, None,
                  << <<"GenerationError: ">> \o e >>,
                  None, None)

\* the try block of generate_post after workflow.invoke returned final_state
BuildResult(final_state, req, cfg) ==
    IF IsDictStrFloat(final_state.engagement_prediction)
    THEN GeneratedPost(final_state.generated_title, final_state.generated_content,
                       final_state.hashtags, final_state.engagement_prediction.items,
                       final_state.optimization_tips, final_state.image_url,
                       final_state.image_description, final_state.errors,
                       Some(cfg.default_model),
                       Some(final_state.image_url # None))
    ELSE Placeholder(req, <<"ValidationError">>)

CallMade(node, out) == Append(calls, <<node, out.kind>>)

\* AIPostWorkflow.__init__: PostContentGenerator(config) calls _init_llm first
AIPostWorkflow_init ==
    /\ variant = "workflow"
    /\ wf = "none"
    /\ IF _init_llm(config).raised
       THEN /\ wf' = "raised"
            /\ ctor_error' = Some([type |-> _init_llm(config).type,
                                    message |-> _init_llm(config).error])
       ELSE /\ wf' = "constructed"
            /\ UNCHANGED ctor_error
    /\ UNCHANGED <<variant, faults, storeVars, cfgVars, image_files, config, request, pc, state, executed, calls,
                   errors_after, result>>

\* generate_post: initial_state and the call of self.workflow.invoke
generate_post ==
    /\ variant = "workflow"
    /\ wf = "constructed"
    /\ pc \in {"idle", "returned"}
    /\ Len(image_files) < MaxImages
    /\ \E req \in RequestInputs : request' = req
    /\ state' = InitialState
    /\ executed' = <<>>
    /\ calls' = <<>>
    /\ errors_after' = <<>>
    /\ result' = None
    /\ pc' = EntryPoint
    /\ UNCHANGED <<variant, faults, storeVars, cfgVars, image_files, config, wf, ctor_error>>

\* what every node leaves alone, and how the graph moves on
NodeRan(node) ==
    /\ executed' = Append(executed, node)
    /\ errors_after' = Append(errors_after, Len(state'.errors))
    /\ pc' = NextNode(node)
    /\ node # "generate_image" => UNCHANGED image_files
    /\ UNCHANGED <<variant, faults, storeVars, cfgVars, config, request, wf, ctor_error, result>>

generate_title ==
    /\ pc = "generate_title"
    /\ \E out \in LlmOutcomes(TitleResponses) :
          /\ state' = TitleStep(state, request, out)
          /\ calls' = CallMade("generate_title", out)
    /\ NodeRan("generate_title")

generate_content ==
    /\ pc = "generate_content"
    /\ \E out \in LlmOutcomes(ContentResponses) :
          /\ state' = ContentStep(state, request, out)
          /\ calls' = CallMade("generate_content", out)
    /\ NodeRan("generate_content")

generate_hashtags ==
    /\ pc = "generate_hashtags"
    /\ IF ~request.include_hashtags
       THEN /\ state' = HashtagSkip(state)
            /\ UNCHANGED calls
       ELSE \E out \in LlmOutcomes(HashtagResponses) :
               /\ state' = HashtagStep(state, request, out)
               /\ calls' = CallMade("generate_hashtags", out)
    /\ NodeRan("generate_hashtags")

generate_image_prompt ==
    /\ pc = "generate_image_prompt"
    /\ IF ~request.generate_image
       THEN UNCHANGED <<state, calls>>
       ELSE \E out \in LlmOutcomes(ImagePromptResponses) :
               /\ state' = ImagePromptStep(state, request, config, out)
               /\ calls' = CallMade("generate_image_prompt", out)
    /\ NodeRan("generate_image_prompt")

generate_image ==
    /\ pc = "generate_image"
    /\ IF ImageSkipped(state, request)
       THEN UNCHANGED <<state, calls, image_files>>
       ELSE IF ~HasOpenAIClient(config)
       THEN /\ state' = ImageNoClient(state)
            /\ UNCHANGED <<calls, image_files>>
       ELSE \E out \in ImageOutcomes :
               /\ state' = ImageStep(state, out, clock)
               /\ calls' = CallMade("generate_image", out)
               /\ image_files' = FilesWritten(image_files, out, clock)
    /\ NodeRan("generate_image")

\* the kind of an answer of the engagement call: valid JSON or not
EngagementOutcomes ==
    {Raises(e) : e \in ExceptionInputs}
    \cup {Responds(IF JsonLoads(Strip(t)).ok THEN "json" ELSE "not_json", t) :
            t \in EngagementResponses}

predict_engagement ==
    /\ pc = "predict_engagement"
    /\ \E out \in EngagementOutcomes :
          /\ state' = EngagementStep(state, out)
          /\ calls' = CallMade("predict_engagement", out)
    /\ NodeRan("predict_engagement")

generate_optimization_tips ==
    /\ pc = "generate_tips"
    /\ \E out \in LlmOutcomes(TipsResponses) :
          /\ state' = TipsStep(state, out)
          /\ calls' = CallMade("generate_tips", out)
    /\ NodeRan("generate_tips")

\* generate_post after workflow.invoke: the GeneratedPost handed to the caller
generate_post_return ==
    /\ pc = END
    /\ result' = Some(BuildResult(state, request, config))
    /\ pc' = "returned"
    /\ UNCHANGED <<variant, faults, storeVars, cfgVars, image_files, config, request, wf, ctor_error, state,
                   executed, calls, errors_after>>

\* ------------------------------------- ai_post_generator.py AIConfigManager
JBool(b) == [json_type |-> "boolean", value |-> b]

\* default_config of load_config (temperature 0.7 in tenths)
DefaultConfig ==
    { <<"openai_api_key", JString("")>>,
      <<"anthropic_api_key", JString("")>>,
      <<"default_model", JString("gpt-4o-mini")>>,
      <<"image_model", JString("dall-e-3")>>,
      <<"max_tokens", JNumber(1000)>>,
      <<"temperature", JNumber(7)>>,
      <<"enable_image_generation", JBool(TRUE)>> }

Keys(dict) == {kv[1] : kv \in dict}

\* a value a stored document may give a key: another value of the same type, a
\* value of another type, null
StoredValue(key) ==
    IF key = "openai_api_key" THEN JString("sk-key")
    ELSE IF key = "anthropic_api_key" THEN JNull
    ELSE IF key = "default_model" THEN JString("claude-3-sonnet-20240229")
    ELSE IF key = "image_model" THEN JString("dall-e-2")
    ELSE IF key = "max_tokens" THEN JString("many")
    ELSE IF key = "temperature" THEN JNumber(2)
    ELSE IF key = "enable_image_generation" THEN JBool(FALSE)
    ELSE JString("dark")

\* AI_CONFIG_FILE: absent, text that is not JSON, JSON that is not an object, or
\* an object holding some of the default keys and possibly a key of its own
NoConfigFile == [exists |-> FALSE, kind |-> "none", items |-> {}]

ConfigDocuments ==
    {NoConfigFile,
     [exists |-> TRUE, kind |-> "text", items |-> {}],
     [exists |-> TRUE, kind |-> "array", items |-> {}]}
    \cup {[exists |-> TRUE, kind |-> "object",
           items |-> {<<k, StoredValue(k)>> : k \in ks}] :
            ks \in SUBSET (Keys(DefaultConfig) \cup {"theme"})}

\* {**default_config, **config}
Merged(defaults, stored) ==
    {kv \in defaults : kv[1] \notin Keys(stored)} \cup stored

\* AIConfigManager.save_config: the document after the call (exceptions are
\* swallowed)
save_config(file, cfg, written) ==
    IF written = "ok" THEN [exists |-> TRUE, kind |-> "object", items |-> cfg]
    ELSE IF written = "not_opened" THEN file
    ELSE [exists |-> TRUE, kind |-> "text", items |-> {}]

\* load_config returning the stored document without the defaults
load_config_Unmerged(file) ==
    IF ~file.exists THEN DefaultConfig
    ELSE IF file.kind = "object" THEN file.items
    ELSE DefaultConfig

\* AIConfigManager.load_config, the value returned: json.load raises on text
\* that is not JSON and ** raises on JSON that is not an object, both inside the
\* try
load_config(file) ==
    IF ~file.exists THEN DefaultConfig
    ELSE IF file.kind = "object" THEN Merged(DefaultConfig, file.items)
    ELSE DefaultConfig

\* AIConfigManager.load_config
AIConfigManager_load_config ==
    /\ variant = "config"
    /\ loaded_config' = Some([config |-> load_config(ai_config_file),
                              document |-> ai_config_file])
    /\ IF ~ai_config_file.exists
       THEN \E written \in WriteOutcomes :
               ai_config_file' = save_config(ai_config_file, DefaultConfig, written)
       ELSE UNCHANGED ai_config_file
    /\ UNCHANGED <<variant, faults, storeVars, flowVars>>

\* the value of a key of a dict
Get(dict, key) == (CHOOSE kv \in dict : kv[1] = key)[2]

\* show_ai_config, the form submitted: the seven keys are saved, the key fields
\* as typed, the others as shown from the loaded configuration
show_ai_config ==
    /\ variant = "config"
    /\ loaded_config # None
    /\ \E openai_key \in KeyInputs, written \in WriteOutcomes :
          LET shown == loaded_config[1].config
              new_config ==
                 { <<"openai_api_key", JString(openai_key)>>,
                   <<"anthropic_api_key", Get(shown, "anthropic_api_key")>>,
                   <<"default_model", JString("gpt-4o-mini")>>,
                   <<"image_model", JString("dall-e-3")>>,
                   <<"temperature", Get(shown, "temperature")>>,
                   <<"max_tokens", Get(shown, "max_tokens")>>,
                   <<"enable_image_generation", Get(shown, "enable_image_generation")>> }
          IN ai_config_file' = save_config(ai_config_file, new_config, written)
    /\ UNCHANGED <<variant, faults, storeVars, flowVars, loaded_config>>

\* --------------------------------------------------------- the store programs
ConfigIdle ==
    /\ ai_config_file = NoConfigFile
    /\ loaded_config = None

GenIdle ==
    /\ config = [default_model |-> <<"gpt-", "4o-mini">>,
                 openai_api_key |-> "", anthropic_api_key |-> ""]
    /\ request = [topic |-> <<"t">>, include_hashtags |-> TRUE, generate_image |-> FALSE]
    /\ wf = "none"
    /\ ctor_error = None
    /\ pc = "idle"
    /\ state = InitialState
    /\ executed = <<>>
    /\ calls = <<>>
    /\ errors_after = <<>>
    /\ result = None
    /\ image_files = <<>>
    /\ ConfigIdle

StoreInit ==
    /\ posts_file = [exists |-> FALSE, valid |-> FALSE, data |-> <<>>]
    /\ test_posts = InitialTestPosts
    /\ clock = Now0
    /\ ret = Returned("none", 0, FALSE, 0, None, Now0, Now0)
    /\ pre = <<>>
    /\ issued = <<>>
    /\ nops = 0
    /\ threads = [c \in Callers |-> NotCalling]

\* the two store programs, on storage that does not fail
Init ==
    /\ variant \in {"streamlit", "api"}
    /\ faults = FALSE
    /\ StoreInit
    /\ GenIdle

Next ==
    \/ create_post
    \/ update_post
    \/ delete_post
    \/ publish_post
    \/ init_sample_data
    \/ API_create_post
    \/ API_update_post
    \/ API_delete_post
    \/ API_publish_post
    \/ Tick

Spec == Init /\ [][Next]_vars

\* ------------------------------------------------------ the workflow program
WorkflowInit ==
    /\ variant = "workflow"
    /\ faults = FALSE
    /\ StoreInit
    /\ config \in ConfigInputs
    /\ request \in RequestInputs
    /\ wf = "none"
    /\ ctor_error = None
    /\ pc = "idle"
    /\ state = InitialState
    /\ executed = <<>>
    /\ calls = <<>>
    /\ errors_after = <<>>
    /\ result = None
    /\ image_files = <<>>
    /\ ConfigIdle

WorkflowNext ==
    \/ AIPostWorkflow_init
    \/ generate_post
    \/ generate_title
    \/ generate_content
    \/ generate_hashtags
    \/ generate_image_prompt
    \/ generate_image
    \/ predict_engagement
    \/ generate_optimization_tips
    \/ generate_post_return
    \/ Tick

WorkflowSpec == WorkflowInit /\ [][WorkflowNext]_vars

\* the PostManager on a POSTS_FILE whose writes may fail
FaultInit ==
    /\ variant = "streamlit"
    /\ faults = TRUE
    /\ StoreInit
    /\ GenIdle

FaultNext ==
    \/ create_post
    \/ update_post
    \/ delete_post
    \/ publish_post
    \/ Tick

FaultSpec == FaultInit /\ [][FaultNext]_vars

\* two callers of PostManager.create_post running concurrently
RaceInit ==
    /\ variant = "streamlit"
    /\ faults = FALSE
    /\ StoreInit
    /\ GenIdle

RaceNext ==
    \/ \E c \in Callers : create_post_load(c)
    \/ \E c \in Callers : create_post_save(c)
    \/ Tick

RaceSpec == RaceInit /\ [][RaceNext]_vars

\* ===================================================================== claims
\* AIConfigManager on every stored document, with writes that may fail
ConfigInit ==
    /\ variant = "config"
    /\ faults = TRUE
    /\ StoreInit
    /\ config = [default_model |-> <<"gpt-", "4o-mini">>,
                 openai_api_key |-> "", anthropic_api_key |-> ""]
    /\ request = [topic |-> <<"t">>, include_hashtags |-> TRUE, generate_image |-> FALSE]
    /\ wf = "none"
    /\ ctor_error = None
    /\ pc = "idle"
    /\ state = InitialState
    /\ executed = <<>>
    /\ calls = <<>>
    /\ errors_after = <<>>
    /\ result = None
    /\ image_files = <<>>
    /\ ai_config_file \in ConfigDocuments
    /\ loaded_config = None

ConfigNext ==
    \/ AIConfigManager_load_config
    \/ show_ai_config

ConfigSpec == ConfigInit /\ [][ConfigNext]_vars

NoDuplicates(seq) == \A i, j \in DOMAIN seq : i # j => seq[i] # seq[j]

\* the position in the pre-state of the post the last operation addressed
Target == FirstIndex(pre, ret.id)

\* C1: an id that create has once assigned is never assigned again by a later
\* create, also after the post holding it was deleted.
C1_IdNeverReused == NoDuplicates(issued)

\* C2: publish on a post that is already published returns failure and leaves
\* its status, facebook_post_id, updated_time and engagement_stats unchanged.
C2_PublishPublishedFails ==
    (ret.op = "publish" /\ Target # 0 /\ pre[Target].status = "published") =>
        /\ ~ret.ok
        /\ Len(Store) = Len(pre)
        /\ Store[Target].status = pre[Target].status
        /\ Store[Target].facebook_post_id = pre[Target].facebook_post_id
        /\ Store[Target].updated_time = pre[Target].updated_time
        /\ Store[Target].engagement_stats = pre[Target].engagement_stats

\* the configured model has no credential, or its name is unsupported
BuildFails(cfg) ==
    \/ Head(cfg.default_model) = "gpt-" /\ cfg.openai_api_key = ""
    \/ Head(cfg.default_model) = "claude-" /\ cfg.anthropic_api_key = ""
    \/ Head(cfg.default_model) \notin {"gpt-", "claude-"}

\* the generation call is over: the caller holds a result or an exception
CallOver == wf = "raised" \/ pc = "returned"

\* C3: if building the pipeline fails (no credential, unsupported model) the
\* generation call does not raise: it returns the static placeholder post with
\* exactly one error.
C3_BuildFailureGivesPlaceholder ==
    (BuildFails(config) /\ CallOver) =>
        /\ wf # "raised"
        /\ result # None
        /\ result[1].title = <<"About">> \o request.topic \o <<"Sharing">>
        /\ result[1].hashtags = << <<"#">> \o request.topic >>
        /\ result[1].predicted_engagement = {<<"overall", 50>>}
        /\ Len(result[1].optimization_tips) = 1
        /\ Len(result[1].generation_metadata.errors) = 1

\* the API key of the provider of the configured default model is empty
ProviderKeyEmpty(cfg) ==
    \/ Head(cfg.default_model) = "gpt-" /\ cfg.openai_api_key = ""
    \/ Head(cfg.default_model) = "claude-" /\ cfg.anthropic_api_key = ""

\* C4: constructing AIPostWorkflow when the key of the default model's provider
\* is empty fails with a ValueError whose message contains "API Key", and no
\* pipeline step has run before that failure.
C4_MissingKeyRaisesValueError ==
    (ProviderKeyEmpty(config) /\ wf # "none") =>
        /\ wf = "raised"
        /\ ctor_error # None
        /\ ctor_error[1].type = "ValueError"
        /\ Contains(ctor_error[1].message, "API Key")
        /\ executed = <<>>
        /\ calls = <<>>
        /\ pc = "idle"

C4_Witness ==
    /\ wf = "raised"
    /\ Head(config.default_model) = "claude-"
    /\ config.anthropic_api_key = ""
    /\ config.openai_api_key # ""

\* the external calls that failed: the call raised, the answer was not the JSON
\* asked for, or the download was refused
FailedCalls == {i \in DOMAIN calls : calls[i][2] \in {"raise", "not_json", "not200"}}

\* C5: every step-local failure, a raising call or an unparsable answer, appends
\* an error string to the error list; so does an engagement answer that is not
\* valid JSON.
C5_EveryFailureAppendsError ==
    Cardinality(FailedCalls) <= Len(state.errors)

SevenSteps ==
    <<"generate_title", "generate_content", "generate_hashtags",
      "generate_image_prompt", "generate_image", "predict_engagement",
      "generate_tips">>

\* C6: on a constructed workflow every generate_post runs the seven steps once
\* each, in the order title, body, hashtags, image prompt, image, engagement,
\* tips, whichever external calls fail.
C6_SevenStepsInOrder ==
    /\ Len(executed) <= Len(SevenSteps)
    /\ executed = SubSeq(SevenSteps, 1, Len(executed))
    /\ pc \in {END, "returned"} => executed = SevenSteps
    /\ pc \notin {"idle", END, "returned"} =>
          (Len(executed) < Len(SevenSteps) /\ pc = SevenSteps[Len(executed) + 1])

C6_Witness ==
    /\ pc = "returned"
    /\ executed = SevenSteps
    /\ request.generate_image
    /\ Len(calls) = Len(SevenSteps)
    /\ \A i \in DOMAIN calls : calls[i][2] = "raise"

AllCallsRaised == \A i \in DOMAIN calls : calls[i][2] = "raise"

FiveMetrics == {"likes", "comments", "shares", "clicks", "overall"}

\* C7: if every call to the text service raises, with hashtags enabled and image
\* generation disabled, generate_post returns the fallback title, the fallback
\* body, the single tag '#'+topic, all five metrics at 5.0, the fixed three tips
\* and at least three errors.
C7_AllCallsFailFallbacks ==
    (pc = "returned" /\ request.include_hashtags /\ ~request.generate_image
        /\ AllCallsRaised) =>
        /\ result # None
        /\ result[1].title = <<"About">> \o request.topic \o <<"WonderfulContent">>
        /\ result[1].content =
              <<"ShareAbout">> \o request.topic \o <<"WonderfulContent...">>
        /\ result[1].hashtags = << <<"#">> \o request.topic >>
        /\ result[1].predicted_engagement = {<<m, 50>> : m \in FiveMetrics}
        /\ result[1].optimization_tips = FallbackTips
        /\ Len(result[1].generation_metadata.errors) >= 3
        /\ result[1].image_url = None
        /\ result[1].image_description = None

C7_Witness ==
    /\ pc = "returned"
    /\ request.include_hashtags
    /\ ~request.generate_image
    /\ AllCallsRaised
    /\ Len(calls) = 5
    /\ Len(result[1].generation_metadata.errors) = 5

\* C8: create returns a post whose id is 1 when the store is empty and
\* max(existing ids)+1 otherwise, and the store afterwards is the previous store
\* with exactly that post added.
C8_CreateAssignsMaxPlusOne ==
    ret.op = "create" =>
        /\ ret.post # None
        /\ ret.post[1].id = ret.id
        /\ ret.id = (IF Len(pre) = 0 THEN 1 ELSE MaxOf(Ids(pre)) + 1)
        /\ Store = Append(pre, ret.post[1])

C8_Witness ==
    /\ ret.op = "create"
    /\ Len(pre) > 0
    /\ ret.id > Len(pre) + 1
    /\ Len(Store) = Len(pre) + 1

\* C9: every post returned by create has created_time equal to updated_time,
\* also when the clock advances during the create call.
C9_CreatedEqualsUpdated ==
    (ret.op = "create" /\ ret.post # None) =>
        ret.post[1].created_time = ret.post[1].updated_time

\* C10: publish on an existing post that is not published reports success, sets
\* the status to published, assigns a non-null facebook_post_id, sets
\* updated_time to the current time and leaves every other post unchanged.
C10_PublishUnpublished ==
    (ret.op = "publish" /\ Target # 0 /\ pre[Target].status # "published") =>
        /\ ret.ok
        /\ Len(Store) = Len(pre)
        /\ Store[Target].status = "published"
        /\ Store[Target].facebook_post_id # None
        /\ Store[Target].updated_time \in ret.called_at..ret.returned_at
        /\ \A j \in DOMAIN pre : j # Target => Store[j] = pre[j]

C10_Witness ==
    /\ ret.op = "publish"
    /\ ret.ok
    /\ Target # 0
    /\ pre[Target].status \in {"draft", "scheduled", "failed"}
    /\ Len(pre) >= 2
    /\ ret.called_at > Now0

\* C11: delete of an id that is not in the store reports failure and leaves the
\* store unchanged; delete of an id that is in the store reports success,
\* removes exactly the post with that id (the length shrinks by exactly one) and
\* leaves the other posts and their order unchanged.
C11_DeleteFrame ==
    ret.op = "delete" =>
        IF ret.id \notin Ids(pre)
        THEN ~ret.ok /\ Store = pre
        ELSE /\ ret.ok
             /\ Len(Store) = Len(pre) - 1
             /\ ret.id \notin Ids(Store)
             /\ Store = SubSeq(pre, 1, Target - 1) \o SubSeq(pre, Target + 1, Len(pre))

\* the value a field takes when the update call supplies it
Supplied(f) ==
    IF f \in OptionalFields THEN Field(ret.args, f) ELSE Field(ret.args, f)[1]

\* C12: update of an id that is in the store changes only the fields supplied
\* with a non-null value, plus updated_time, leaves every field supplied as null
\* and every other post unchanged, and returns true; update of an id that is not
\* in the store returns false (404 from the API) and leaves the store unchanged.
C12_UpdateFrame ==
    ret.op = "update" =>
        IF Target = 0
        THEN /\ ~ret.ok
             /\ variant = "api" => ret.code = 404
             /\ Store = pre
        ELSE /\ ret.ok
             /\ Len(Store) = Len(pre)
             /\ \A j \in DOMAIN pre : j # Target => Store[j] = pre[j]
             /\ Store[Target].updated_time = ret.called_at
             /\ \A f \in (DOMAIN pre[Target]) \ {"updated_time"} :
                   IF Field(ret.args, f) # None
                   THEN Store[Target][f] = Supplied(f)
                   ELSE Store[Target][f] = pre[Target][f]

C12_Witness ==
    /\ ret.op = "update"
    /\ ret.ok
    /\ Len(pre) >= 2
    /\ <<"content", None>> \in ret.args
    /\ Field(ret.args, "title") # None
    /\ Store[Target].title # pre[Target].title
    /\ Store[Target].updated_time > pre[Target].updated_time

\* C13: in every state reached by a sequence of create, update, publish and
\* delete operations, no two posts of the store have the same id.
C13_UniqueIds ==
    \A i, j \in DOMAIN Store : i # j => Store[i].id # Store[j].id

\* C14: created_time is immutable: no update, publish or delete, whatever
\* arguments it is given, changes the created_time of a post that stays in the
\* store.
C14_CreatedTimeImmutable ==
    /\ ret.op \in {"update", "publish"} =>
          /\ Len(Store) = Len(pre)
          /\ \A j \in DOMAIN pre : Store[j].created_time = pre[j].created_time
    /\ ret.op = "delete" =>
          \A j \in DOMAIN Store : \E k \in DOMAIN pre :
              /\ pre[k].id = Store[j].id
              /\ pre[k].created_time = Store[j].created_time

\* C15: under a clock that never goes back, every post of the store has
\* updated_time >= created_time.
C15_UpdatedNotBeforeCreated ==
    \A i \in DOMAIN Store : Store[i].updated_time >= Store[i].created_time

\* C16: in every reachable store every post's status is one of draft, scheduled,
\* published, failed, whatever status values callers pass to create and update.
C16_StatusInEnumeration ==
    \A i \in DOMAIN Store : Store[i].status \in Statuses

\* C17: save_posts is atomic for its caller: after a call that saved, whether
\* the write succeeded or failed part-way, load_posts gives either the complete
\* collection stored before or the complete new one, never an empty, truncated
\* or partial one.
C17_SaveAtomic ==
    ret.saved # None => load_posts(posts_file) \in {pre, ret.saved[1]}

\* two callers whose create_post calls overlapped: both have returned and both
\* had loaded the same collection
Overlapped(c1, c2) ==
    /\ c1 # c2
    /\ threads[c1].pc = "done"
    /\ threads[c2].pc = "done"
    /\ threads[c1].posts = threads[c2].posts

\* C18: when two create calls run concurrently and interleave at the level of
\* load and save, both callers are returned the same id and the persisted store
\* holds only one of the two created posts: the later save overwrites the
\* earlier one.
C18_ConcurrentCreateLosesPost ==
    \A c1, c2 \in Callers : Overlapped(c1, c2) =>
        LET loaded == threads[c1].posts
            p1 == threads[c1].post[1]
            p2 == threads[c2].post[1]
        IN /\ p1.id = p2.id
           /\ p1.id = (IF loaded = <<>> THEN 1 ELSE MaxOf(Ids(loaded)) + 1)
           /\ Len(Store) = Len(loaded) + 1
           /\ Store \in {Append(loaded, p1), Append(loaded, p2)}

C18_Witness ==
    \E c1, c2 \in Callers :
        /\ Overlapped(c1, c2)
        /\ threads[c1].posts # <<>>
        /\ threads[c1].post[1].id = threads[c2].post[1].id
        /\ threads[c1].post[1] # threads[c2].post[1]
        /\ Store = Append(threads[c1].posts, threads[c2].post[1])
        /\ \A i \in DOMAIN Store : Store[i] # threads[c1].post[1]

\* the number of errors the k-th executed node appended
ErrorsAddedBy(k) ==
    errors_after[k] - (IF k = 1 THEN 0 ELSE errors_after[k - 1])

\* the position of a node in the run
StepOf(node) == CHOOSE k \in DOMAIN SevenSteps : SevenSteps[k] = node

HasRun(node) == StepOf(node) \in DOMAIN executed

\* C19: an optional output disabled in the request comes out empty and the
\* steps responsible for it add no error: include_hashtags = false gives
\* hashtags = [] and no error from the hashtag step; generate_image = false
\* gives image_url = null and image_description = null and no error from the
\* image-prompt step or the image step.
C19_DisabledOutputsEmpty ==
    /\ (~request.include_hashtags /\ HasRun("generate_hashtags")) =>
          /\ state.hashtags = <<>>
          /\ ErrorsAddedBy(StepOf("generate_hashtags")) = 0
    /\ (~request.generate_image /\ HasRun("generate_image_prompt")) =>
          ErrorsAddedBy(StepOf("generate_image_prompt")) = 0
    /\ (~request.generate_image /\ HasRun("generate_image")) =>
          /\ state.image_url = None
          /\ state.image_description = None
          /\ ErrorsAddedBy(StepOf("generate_image")) = 0
    /\ (~request.include_hashtags /\ pc = "returned") => result[1].hashtags = <<>>
    /\ (~request.generate_image /\ pc = "returned") =>
          /\ result[1].image_url = None
          /\ result[1].image_description = None

\* an image was asked for, the image step found a prompt, and no image-service
\* credential is configured
ImageWithoutCredential ==
    /\ request.generate_image
    /\ HasRun("generate_image")
    /\ ~NoImagePrompt(state)
    /\ config.openai_api_key = ""

\* C20: when an image is requested and an image prompt is present but no
\* image-service credential is configured, the image step appends exactly one
\* error, leaves image_url and image_description null, and the pipeline goes on
\* with the engagement step and the tips step.
C20_ImageWithoutCredential ==
    ImageWithoutCredential =>
        /\ ErrorsAddedBy(StepOf("generate_image")) = 1
        /\ state.errors[errors_after[StepOf("generate_image")]] = <<"ImageNeedsOpenAIKey">>
        /\ state.image_url = None
        /\ state.image_description = None
        /\ pc \in {"predict_engagement", "generate_tips", END, "returned"}
        /\ Len(executed) = StepOf("generate_image") => pc = "predict_engagement"
        /\ pc \in {END, "returned"} => executed = SevenSteps

C20_Witness ==
    /\ ImageWithoutCredential
    /\ pc = "returned"
    /\ executed = SevenSteps
    /\ state.image_prompt = Some(<<"a", " ", "prompt">>)
    /\ state.errors = << <<"ImageNeedsOpenAIKey">> >>
    /\ result[1].image_url = None
    /\ result[1].generation_metadata.errors = state.errors

\* C21: round trip: save_posts followed by load_posts gives back the N posts
\* in the same order, each equal field for field to the original; unset
\* optional fields (scheduled_time, facebook_post_id, engagement_stats) come
\* back as the same defaults.
C21_SaveLoadRoundTrip ==
    (ret.saved # None /\ ret.written = "ok") =>
        LET saved == ret.saved[1]
            loaded == load_posts(posts_file)
        IN /\ Len(loaded) = Len(saved)
           /\ \A i \in DOMAIN saved : \A f \in PostFields : loaded[i][f] = saved[i][f]
           /\ \A i \in DOMAIN saved :
                 /\ saved[i].scheduled_time = None => loaded[i].scheduled_time = None
                 /\ saved[i].facebook_post_id = None => loaded[i].facebook_post_id = None
                 /\ saved[i].engagement_stats = {} => loaded[i].engagement_stats = {}

C21_Witness ==
    /\ ret.saved # None
    /\ ret.written = "ok"
    /\ Len(ret.saved[1]) >= 2
    /\ \E i, j \in DOMAIN ret.saved[1] :
          /\ i < j
          /\ ret.saved[1][i].facebook_post_id # None
          /\ ret.saved[1][i].engagement_stats # {}
          /\ ret.saved[1][j].facebook_post_id = None
          /\ ret.saved[1][j].scheduled_time = None
          /\ ret.saved[1][j].engagement_stats = {}
    /\ Len(load_posts(posts_file)) = Len(ret.saved[1])

\* a PostManager operation has just run
ManagerCall == variant = "streamlit" /\ nops' = nops + 1

\* C22: load_posts never raises: the operation that called it returns, with the
\* empty collection loaded when the document does not exist and when it cannot
\* be deserialized (no partial result), and in neither case does load_posts
\* itself modify the document.
C22_LoadNeverRaises ==
    [][ManagerCall =>
          /\ ret'.op \in {"create", "update", "delete", "publish"}
          /\ ret'.found = DocState(posts_file)
          /\ DocState(posts_file) \in {"missing", "undeserializable"} => pre' = <<>>
          /\ ret'.saved = None => posts_file' = posts_file]_vars

C22_Witness ==
    /\ ret.op \in {"update", "delete", "publish"}
    /\ ~ret.ok
    /\ ret.saved = None
    /\ ret.found = "undeserializable"
    /\ pre = <<>>
    /\ posts_file.exists
    /\ ~posts_file.valid
    /\ posts_file.data # <<>>

\* C23: load_config never raises and always returns a mapping with every one of
\* the seven default keys: a key present in the stored document overrides its
\* default, a key missing from it takes its default, and a missing or
\* unreadable document gives exactly the defaults.
C23_LoadConfigMergesDefaults ==
    loaded_config # None =>
        LET cfg == loaded_config[1].config
            doc == loaded_config[1].document
        IN /\ Keys(DefaultConfig) \subseteq Keys(cfg)
           /\ Cardinality(Keys(DefaultConfig)) = 7
           /\ Cardinality(cfg) = Cardinality(Keys(cfg))
           /\ IF doc.exists /\ doc.kind = "object"
              THEN /\ \A kv \in doc.items : kv \in cfg
                   /\ \A kv \in DefaultConfig : kv[1] \notin Keys(doc.items) => kv \in cfg
              ELSE cfg = DefaultConfig

C23_Witness ==
    /\ loaded_config # None
    /\ loaded_config[1].document.kind = "object"
    /\ Keys(loaded_config[1].document.items) = {"max_tokens", "anthropic_api_key", "theme"}
    /\ <<"max_tokens", JString("many")>> \in loaded_config[1].config
    /\ <<"temperature", JNumber(7)>> \in loaded_config[1].config
    /\ Cardinality(loaded_config[1].config) = 8

\* C24: each successful image generation stores its image under a file name of
\* its own: two successful generations, also two that complete within the same
\* clock second, never end with the same image_url path, so a later generation
\* never overwrites the file an earlier result refers to.
C24_ImageFileNamesUnique == NoDuplicates(image_files)

\* C25: whenever generate_post runs the seven steps, the title and the content
\* of the returned post are the values the title step and the body step left in
\* the state, whatever the later calls return, an engagement answer that is
\* valid JSON but not a metric-to-number mapping included.
C25_TitleAndContentPreserved ==
    (pc = "returned" /\ executed = SevenSteps) =>
        /\ result[1].title = state.generated_title
        /\ result[1].content = state.generated_content

\* the write inside the save_posts call of the last operation failed
WriteFailed == ret.saved # None /\ ret.written \in {"not_opened", "partial"}

C27_CreateOnBrokenDocument ==
    (ret.op = "create" /\ ret.found = "undeserializable" /\ ret.written = "ok") =>
        /\ pre = <<>>
        /\ ret.id = 1
        /\ posts_file = [exists |-> TRUE, valid |-> TRUE,
                         data |-> Dumped(<<ret.post[1]>>)]
        /\ load_posts(posts_file) = <<ret.post[1]>>

C27_Witness ==
    /\ ret.op = "create"
    /\ ret.found = "undeserializable"
    /\ ret.written = "ok"
    /\ issued = <<1, 2, 1>>
    /\ Len(load_posts(posts_file)) = 1

\* C28: in every state reached through create, update, publish and delete a
\* post has a non-null facebook_post_id exactly when its status is published.
C28_FacebookIdIffPublished ==
    \A i \in DOMAIN Store :
        (Store[i].facebook_post_id # None) <=> (Store[i].status = "published")

\* the step an error string comes from, read off its fixed opening text
StepOfError(e) ==
    IF Head(e) = "TitleFailed: " THEN 1
    ELSE IF Head(e) = "ContentFailed: " THEN 2
    ELSE IF Head(e) = "HashtagsFailed: " THEN 3
    ELSE IF Head(e) = "ImagePromptFailed: " THEN 4
    ELSE IF Head(e) \in {"ImageFailed: ", "ImageDownloadFailed", "ImageNeedsOpenAIKey"} THEN 5
    ELSE IF Head(e) = "EngagementFailed: " THEN 6
    ELSE IF Head(e) = "TipsFailed: " THEN 7
    ELSE 0

\* a node of the graph has just run
NodeStep == Len(executed') = Len(executed) + 1

\* C29: across one pipeline run the error list only grows: each of the seven
\* steps appends at most one error string and never removes or rewrites an
\* earlier entry, so the final error list has at most seven entries, in step
\* order.
C29_ErrorListOnlyGrows ==
    [][NodeStep =>
          /\ Len(state'.errors) \in {Len(state.errors), Len(state.errors) + 1}
          /\ SubSeq(state'.errors, 1, Len(state.errors)) = state.errors
          /\ Len(state'.errors) > Len(state.errors) =>
                StepOfError(state'.errors[Len(state'.errors)]) = Len(executed')
          /\ Len(state'.errors) <= Len(executed')
          /\ Len(state'.errors) <= Len(SevenSteps)
          /\ \A i, j \in DOMAIN state'.errors :
                i < j => StepOfError(state'.errors[i]) < StepOfError(state'.errors[j])]_vars

C29_Witness ==
    /\ pc = "returned"
    /\ Len(state.errors) = Len(SevenSteps)
    /\ \A i \in DOMAIN state.errors : StepOfError(state.errors[i]) = i
    /\ result[1].generation_metadata.errors = state.errors

\* C30: init_sample_data leaves a non-empty store unchanged; on an empty store
\* it ends with exactly three posts, ids 1, 2, 3, statuses published,
\* scheduled, draft, and the published post has a facebook_post_id and
\* non-empty engagement_stats.
C30_InitSampleData ==
    ret.op = "init" =>
        IF pre # <<>>
        THEN Store = pre
        ELSE /\ Len(Store) = 3
             /\ \A i \in 1..3 : Store[i].id = i /\ Store[i].status = SamplePosts[i].status
             /\ Store[1].status = "published"
             /\ Store[1].facebook_post_id # None
             /\ Store[1].engagement_stats # {}

\* the sample data was written into a store emptied by earlier deletions
C30_Witness ==
    /\ ret.op = "init"
    /\ pre = <<>>
    /\ Len(issued) > 3
    /\ Len(Store) = 3
    /\ Store[1].facebook_post_id # None

====
